---- MODULE Spec2Model ----
(***************************************************************************)
(* The circle packer of fractabubbler (src/main.c): the radius oracle      *)
(* get_circle / is_circle_in_image, the scan find_biggest_circle and the   *)
(* scan-and-erase loop of fractabubble, over small bitmaps.                *)
(***************************************************************************)
EXTENDS Integers, Sequences, FiniteSets, TLC

\* Largest bitmap width and height explored.
MaxWidth == 7
MaxHeight == 5
\* The initial bitmap differs from the all-filled or from the all-empty
\* bitmap in one horizontal run of at most this many pixels.
MaxRun == 2
\* Largest --fineness explored (get_number only lets positive values through).
MaxFineness == 2

VARIABLES
    img,              \* the Bitmap: [data, stride, width, height]
    fineness,         \* program.fineness
    pc,               \* "test": at the while condition; "body": in the loop body; "done": after the loop
    greatest_radius,  \* fractabubble's local
    x_greatest,       \* fractabubble's local, out-parameter of find_biggest_circle
    y_greatest,       \* fractabubble's local, out-parameter of find_biggest_circle
    out_state,        \* "uninit": x_greatest/y_greatest never written; "fresh": written by the last scan; "stale": written by an earlier scan only
    svg,              \* the <circle> elements written so far, as <<cx, cy, r>>
    considered,       \* the pixels the last scan called get_circle on
    bad               \* the coordinates outside [0,W) x [0,H) read or written by the last step

vars == <<img, fineness, pc, greatest_radius, x_greatest, y_greatest, out_state, svg, considered, bad>>

----------------------------------------------------------------------------
(* Bitmap *)

\* F applied to the value of v: a C local that is assigned once and read
\* several times.
With(v, F(_)) == CHOOSE res \in {F(a) : a \in {v}} : TRUE

InCanvas(b, x, y) == 0 <= x /\ x < b.width /\ 0 <= y /\ y < b.height

Pixels(b) == {<<x, y>> : x \in 0..(b.width - 1), y \in 0..(b.height - 1)}

\* img.data[y * img.stride + x]; an index outside the allocation reads an
\* indeterminate byte, given as wild.
ReadPixel(b, x, y, wild) ==
    LET idx == y * b.stride + x
    IN  IF idx \in DOMAIN b.data THEN b.data[idx] ELSE wild

\* What rasterize_glyph returns: a width*height allocation, stride = width,
\* zero (calloc) but where the glyph has ink.
MakeBitmap(w, h, ink) ==
    [data   |-> [idx \in 0..(w * h - 1) |-> IF <<idx % w, idx \div w>> \in ink THEN 255 ELSE 0],
     stride |-> w,
     width  |-> w,
     height |-> h]

----------------------------------------------------------------------------
(* is_circle_in_image *)

\* The eight reads of one iteration of the walk, in the order of the code.
RingPoints(cx, cy, x, y) ==
    << <<cx + x, cy + y>>, <<cx + x, cy - y>>, <<cx - x, cy + y>>, <<cx - x, cy - y>>,
       <<cx + y, cy + x>>, <<cx - y, cy + x>>, <<cx + y, cy - x>>, <<cx - y, cy - x>> >>

\* Index of the first of the reads that finds an empty pixel, 0 if none does.
RECURSIVE FirstZero(_, _, _, _)
FirstZero(b, pts, k, wild) ==
    IF k > Len(pts) THEN 0
    ELSE IF ReadPixel(b, pts[k][1], pts[k][2], wild) = 0 THEN k
    ELSE FirstZero(b, pts, k + 1, wild)

\* The reads among the first k of pts that fall outside the canvas.
OutReads(b, pts, k) == {pts[i] : i \in {n \in 1..k : ~InCanvas(b, pts[n][1], pts[n][2])}}

\* The while loop of is_circle_in_image from the state (x, y, t1); oob is
\* the set of out-of-canvas coordinates read so far.
RECURSIVE CircleWalk(_, _, _, _, _, _, _, _)
CircleWalk(b, cx, cy, x, y, t1, wild, oob) ==
    IF y > x THEN [ok |-> TRUE, bad |-> oob]
    ELSE LET pts == RingPoints(cx, cy, x, y)
             y1  == y + 1
             t1a == t1 + y1
             t2  == t1a - x
         IN  With(FirstZero(b, pts, 1, wild), LAMBDA k :
               IF k # 0
               THEN [ok |-> FALSE, bad |-> oob \cup OutReads(b, pts, k)]
               ELSE With(oob \cup OutReads(b, pts, 8), LAMBDA oob1 :
                      IF t2 >= 0
                      THEN CircleWalk(b, cx, cy, x - 1, y1, t2, wild, oob1)
                      ELSE CircleWalk(b, cx, cy, x, y1, t1a, wild, oob1)))

is_circle_in_image(b, cx, cy, r, wild) ==
    CircleWalk(b, cx, cy, r, 0, r \div 16, wild, {})

----------------------------------------------------------------------------
(* get_circle *)

\* The test with its upper limits off by one.
OutOfCanvas_OffByOne(b, px, py, r) ==
    px - r < 0 \/ px + r > b.width \/ py - r < 0 \/ py + r > b.height

\* The first test of get_circle: the square around the disk leaves the canvas.
OutOfCanvas(b, px, py, r) ==
    px - r < 0 \/ px + r >= b.width \/ py - r < 0 \/ py + r >= b.height

\* get_circle(img, px, py, r), with the out-of-canvas coordinates it read.
RECURSIVE get_circle_from(_, _, _, _, _, _)
get_circle_from(b, px, py, r, wild, oob) ==
    IF OutOfCanvas(b, px, py, r) THEN [r |-> r - 1, bad |-> oob]
    ELSE With(is_circle_in_image(b, px, py, r, wild), LAMBDA t :
           IF ~t.ok THEN [r |-> r - 1, bad |-> oob \cup t.bad]
           ELSE get_circle_from(b, px, py, r + 1, wild, oob \cup t.bad))

get_circle(b, px, py, r, wild) == get_circle_from(b, px, py, r, wild, {})

----------------------------------------------------------------------------
(* find_biggest_circle *)

\* The test without the comparison with the best so far.
Better_NoCompare(r, greatest) == r > 0

\* The test letting an equal radius replace the best so far.
Better_OrEqual(r, greatest) == r >= greatest

\* The test that replaces the best circle so far.
Better(r, greatest) == r > greatest

\* One iteration of the inner for loop at pixel (x, y), where get_circle
\* gave g.
FindStep(acc, x, y, g) ==
    LET hit == Better(g.r, acc.greatest)
    IN  [greatest   |-> IF hit THEN g.r ELSE acc.greatest,
         out_x      |-> IF hit THEN x ELSE acc.out_x,
         out_y      |-> IF hit THEN y ELSE acc.out_y,
         wrote      |-> acc.wrote \/ hit,
         considered |-> acc.considered \cup {<<x, y>>},
         bad        |-> acc.bad \cup g.bad]

\* The outer loop stopping one column early.
XEnd_Short(b) == b.width - 1

\* The bounds of the two for loops.
XEnd(b) == b.width
YEnd(b) == b.height

\* for (int y = y0; y < img.height; y++) of column x.
RECURSIVE ForY(_, _, _, _, _)
ForY(b, x, y, acc, wild) ==
    IF y >= YEnd(b) THEN acc
    ELSE With(get_circle(b, x, y, 0, wild), LAMBDA g :
           With(FindStep(acc, x, y, g), LAMBDA acc1 :
             ForY(b, x, y + 1, acc1, wild)))

\* for (int x = x0; x < img.width; x++).
RECURSIVE ForX(_, _, _, _)
ForX(b, x, acc, wild) ==
    IF x >= XEnd(b) THEN acc
    ELSE With(ForY(b, x, 0, acc, wild), LAMBDA acc1 :
           ForX(b, x + 1, acc1, wild))

\* find_biggest_circle(img, &out_x, &out_y): out_x, out_y come in with the
\* caller's values and are only assigned where wrote is TRUE.
find_biggest_circle(b, ox, oy, wild) ==
    ForX(b, 0,
         [greatest |-> 0, out_x |-> ox, out_y |-> oy, wrote |-> FALSE,
          considered |-> {}, bad |-> {}],
         wild)

----------------------------------------------------------------------------
(* fractabubble *)

\* The while condition with a strict comparison.
LoopCond_Strict(gr, fine) == gr > fine

\* The while condition comparing with zero instead of the fineness.
LoopCond_NonNeg(gr, fine) == gr >= 0

\* The while condition.
LoopCond(gr, fine) == gr >= fine

\* The test of the erasure loop with the circumference included.
InDisk_Closed(i, j, r) == j * j + i * i <= r * r

\* The test of the erasure loop.
InDisk(i, j, r) == j * j + i * i < r * r

\* The coordinates the erasure loop writes for the circle (p_x, p_y, r).
EraseCells(p_x, p_y, r) ==
    {<<p_x + i, p_y + j>> : <<i, j>> \in {q \in ((-r)..(r - 1)) \X ((-r)..(r - 1)) : InDisk(q[1], q[2], r)}}

\* The bitmap after the erasure loop; writes past the allocation do not
\* land in the bitmap.
Erase(b, p_x, p_y, r) ==
    LET idxs == {c[2] * b.stride + c[1] : c \in EraseCells(p_x, p_y, r)}
    IN  [b EXCEPT !.data = [idx \in DOMAIN b.data |-> IF idx \in idxs THEN 0 ELSE b.data[idx]]]

\* Values an uninitialised int may hold when it is read.
Garbage == {-1, 0}

\* The horizontal runs of at most MaxRun pixels of a w x h canvas.
Runs(w, h) ==
    {{<<x + i, y>> : i \in 0..(n - 1)} :
        <<x, y, n>> \in {t \in (0..(w - 1)) \X (0..(h - 1)) \X (0..MaxRun) : t[1] + t[3] <= w}}

InitBitmaps ==
    UNION {
        LET all == {<<x, y>> : x \in 0..(w - 1), y \in 0..(h - 1)}
        IN  {MakeBitmap(w, h, all \ d) : d \in Runs(w, h)}
            \cup {MakeBitmap(w, h, d) : d \in Runs(w, h)}
        : <<w, h>> \in (1..MaxWidth) \X (1..MaxHeight)}

Init ==
    /\ img \in InitBitmaps
    /\ fineness \in 1..MaxFineness
    /\ pc = "test"
    /\ greatest_radius = 0
    /\ x_greatest = 0
    /\ y_greatest = 0
    /\ out_state = "uninit"
    /\ svg = <<>>
    /\ considered = {}
    /\ bad = {}

\* The results find_biggest_circle can have: one, unless it read outside
\* the allocation.
ScanOutcomes(b, ox, oy) ==
    With(find_biggest_circle(b, ox, oy, 0), LAMBDA s0 :
      IF s0.bad = {} THEN {s0} ELSE {s0, find_biggest_circle(b, ox, oy, 255)})

\* The while condition: the scan, the assignment and the comparison.
LoopTest ==
    /\ pc = "test"
    /\ \E s \in ScanOutcomes(img, x_greatest, y_greatest) :
             /\ greatest_radius' = s.greatest
             /\ x_greatest' = s.out_x
             /\ y_greatest' = s.out_y
             /\ out_state' = IF s.wrote THEN "fresh"
                             ELSE IF out_state = "uninit" THEN "uninit" ELSE "stale"
             /\ considered' = s.considered
             /\ bad' = s.bad
             /\ pc' = IF LoopCond(s.greatest, fineness) THEN "body" ELSE "done"
    /\ UNCHANGED <<img, fineness, svg>>

\* The loop body: the <circle> element and the erasure.  The guard on
\* Len(svg) only caps the sequence, at one element more than W*H.
Body ==
    /\ pc = "body"
    /\ Len(svg) <= img.width * img.height
    /\ \E gx \in (IF out_state = "uninit" THEN Garbage ELSE {x_greatest}),
          gy \in (IF out_state = "uninit" THEN Garbage ELSE {y_greatest}) :
         LET r == greatest_radius
         IN  /\ svg' = Append(svg, <<gx, gy, r>>)
             /\ img' = Erase(img, gx, gy, r)
             /\ bad' = {c \in EraseCells(gx, gy, r) : ~InCanvas(img, c[1], c[2])}
    /\ pc' = "test"
    /\ UNCHANGED <<fineness, greatest_radius, x_greatest, y_greatest, out_state, considered>>

Next == LoopTest \/ Body

Spec == Init /\ [][Next]_vars

\* Control moves on: the program counter changes while the loop has not ended.
\* Every step of Next is such a step.
Advance == pc # "done" /\ pc' \in {"test", "body", "done"} \ {pc}

\* The process is sequential and nothing suspends it: as long as the loop has
\* not ended, its next step is taken.
FairSpec == Spec /\ WF_pc(Advance)

----------------------------------------------------------------------------
(* Reference notions the properties are stated with *)

\* get_circle(img, x, y, 0) as find_biggest_circle calls it.
Oracle(b, x, y) == get_circle(b, x, y, 0, 0).r

\* Every pixel of the closed disk of radius r around (x, y) is in the canvas
\* and filled.
DiskFilled(b, x, y, r) ==
    \A dx \in (-r)..r, dy \in (-r)..r :
        dx * dx + dy * dy <= r * r =>
            InCanvas(b, x + dx, y + dy) /\ ReadPixel(b, x + dx, y + dy, 0) # 0

\* The Euclidean inscribed radius at a filled pixel.
EuclidRadius(b, x, y) ==
    CHOOSE r \in 0..(b.width + b.height) :
        DiskFilled(b, x, y, r) /\ ~DiskFilled(b, x, y, r + 1)

Filled(b) == {p \in Pixels(b) : ReadPixel(b, p[1], p[2], 0) # 0}

MaxOf(S) == CHOOSE m \in S : \A n \in S : n <= m

Largest(a, b) == IF a >= b THEN a ELSE b

----------------------------------------------------------------------------
(* Properties *)

\* C1: the radii of the emitted circles form a non-increasing sequence.
C1_NonIncreasing ==
    \A n \in 2..Len(svg) : svg[n][3] <= svg[n - 1][3]

\* A run that emitted a circle strictly smaller than the one before it.
C1_Witness ==
    /\ Len(svg) >= 3
    /\ \E n \in 2..Len(svg) : svg[n][3] < svg[n - 1][3]

\* C2: the circle about to be emitted is fully inscribed in the bitmap as it
\* is when the circle was found: every pixel of its closed disk is in the
\* canvas and filled.
C2_Inscribed ==
    pc = "body" => DiskFilled(img, x_greatest, y_greatest, greatest_radius)

\* C3: at most W*H circles are emitted, every iteration clears the centre of
\* its circle and lowers the number of filled pixels, and the loop ends.
C3_Terminates ==
    /\ [](Len(svg) <= img.width * img.height)
    /\ [][pc = "body" =>
            /\ Cardinality(Filled(img')) < Cardinality(Filled(img))
            /\ ReadPixel(img, x_greatest, y_greatest, 0) # 0
            /\ ReadPixel(img', x_greatest, y_greatest, 0) = 0]_vars
    /\ <>(pc = "done")

\* A finished run that went through the loop body more than once.
C3_Witness == pc = "done" /\ Len(svg) >= 2

\* C4: at every filled pixel the scan has called it on, the oracle returns
\* the Euclidean inscribed radius.
C4_OracleIsEuclid ==
    \A p \in considered \cap Filled(img) : Oracle(img, p[1], p[2]) = EuclidRadius(img, p[1], p[2])

\* C5: every scan considers every pixel, and the circle about to be emitted
\* has the greatest oracle radius of the bitmap, at a pixel that has it.
C5_GlobalMaximum ==
    /\ (pc = "test" /\ svg = <<>>) \/ considered = Pixels(img)
    /\ pc = "body" =>
          /\ out_state = "fresh"
          /\ greatest_radius = MaxOf({Oracle(img, p[1], p[2]) : p \in Pixels(img)})
          /\ InCanvas(img, x_greatest, y_greatest)
          /\ Oracle(img, x_greatest, y_greatest) = greatest_radius

\* A scan that found its circle on a bitmap where other pixels have a
\* smaller positive oracle radius.
C5_Witness ==
    /\ pc = "body"
    /\ greatest_radius >= 2
    /\ \E p \in Pixels(img) : Oracle(img, p[1], p[2]) = 1

IsFullSquare(b) == b.width = b.height /\ Filled(b) = Pixels(b)

\* C6 as stated: on a filled N x N bitmap with fineness <= N/2 the first
\* circle is (N/2, N/2, N/2), divisions rounding down.
C6_FullGridHalf ==
    (IsFullSquare(img) /\ pc # "test" /\ fineness <= img.width \div 2) =>
        /\ pc = "body"
        /\ greatest_radius = img.width \div 2
        /\ x_greatest = img.width \div 2
        /\ y_greatest = img.width \div 2

\* C6 amended: on a filled N x N bitmap with fineness <= (N-1)/2 the first
\* circle is ((N-1)/2, (N-1)/2, (N-1)/2), divisions rounding down; with a
\* larger fineness no circle is emitted.
C6_FullGridAmended ==
    (IsFullSquare(img) /\ pc # "test") =>
        IF fineness <= (img.width - 1) \div 2
        THEN /\ pc = "body"
             /\ out_state = "fresh"
             /\ greatest_radius = (img.width - 1) \div 2
             /\ x_greatest = (img.width - 1) \div 2
             /\ y_greatest = (img.width - 1) \div 2
        ELSE pc = "done" /\ svg = <<>>

\* The first circle of a filled bitmap of even side.
C6_Witness ==
    /\ IsFullSquare(img) /\ pc = "body"
    /\ img.width = 4 /\ greatest_radius = 1 /\ x_greatest = 1 /\ y_greatest = 1

\* C7: every emitted radius is at least fineness; the body is only entered
\* with such a radius; when the loop has ended no pixel has an oracle radius
\* of fineness or more; an all-empty bitmap stays as it is and emits nothing.
C7_Fineness ==
    /\ [](\A n \in 1..Len(svg) : svg[n][3] >= fineness)
    /\ [](pc = "body" => greatest_radius >= fineness)
    /\ [](pc = "done" => \A p \in Pixels(img) : Oracle(img, p[1], p[2]) < fineness)
    /\ [][Filled(img) = {} => (img' = img /\ svg' = <<>> /\ pc' = "done")]_vars

\* A run that ended while pixels with a positive oracle radius remain.
C7_Witness ==
    /\ pc = "done" /\ Len(svg) >= 1
    /\ \E p \in Pixels(img) : Oracle(img, p[1], p[2]) >= 1

\* MAX_CIRCLE_RADIUS_PERCENT, in hundredths.
MAX_CIRCLE_RADIUS_PERCENT == 20

\* C8: neither the radius the scan returned nor an emitted radius exceeds
\* the configured maximum, read most generously as that share of the
\* larger canvas side.
C8_Capped ==
    LET cap100 == MAX_CIRCLE_RADIUS_PERCENT * Largest(img.width, img.height)
    IN  /\ \A n \in 1..Len(svg) : 100 * svg[n][3] <= cap100
        /\ 100 * greatest_radius <= cap100

\* C9: a step of the body empties exactly the pixels strictly inside the
\* emitted circle and leaves the others as they are; no step fills a pixel
\* or changes width, height or stride.
C9_Erasure ==
    [][/\ img'.width = img.width /\ img'.height = img.height /\ img'.stride = img.stride
       /\ DOMAIN img'.data = DOMAIN img.data
       /\ \A p \in Pixels(img) : ReadPixel(img, p[1], p[2], 0) = 0 => ReadPixel(img', p[1], p[2], 0) = 0
       /\ pc # "body" => img' = img
       /\ pc = "body" =>
            LET c == svg'[Len(svg')]
            IN  \A p \in Pixels(img) :
                    ReadPixel(img', p[1], p[2], 0) =
                        IF (p[1] - c[1]) * (p[1] - c[1]) + (p[2] - c[2]) * (p[2] - c[2]) < c[3] * c[3]
                        THEN 0 ELSE ReadPixel(img, p[1], p[2], 0)]_vars

\* After an erasure: the centre is empty and the four pixels at distance
\* exactly r on the axes, which the ring test read, are still filled.
C9_Witness ==
    /\ pc = "test" /\ Len(svg) >= 1
    /\ LET c == svg[Len(svg)]
       IN  /\ c[3] >= 2
           /\ ReadPixel(img, c[1], c[2], 0) = 0
           /\ ReadPixel(img, c[1] + c[3], c[2], 0) # 0
           /\ ReadPixel(img, c[1] - c[3], c[2], 0) # 0
           /\ ReadPixel(img, c[1], c[2] + c[3], 0) # 0
           /\ ReadPixel(img, c[1], c[2] - c[3], 0) # 0

\* C10: no step reads or writes a coordinate outside the canvas, and the
\* body runs only with a centre the scan of its own round has set.
C10_InBounds ==
    /\ bad = {}
    /\ pc = "body" => out_state = "fresh"
    /\ img.stride = img.width

\* An erasure of a circle that touches the left and the top edge of the
\* canvas, in a later round than the first.
C10_Witness ==
    /\ pc = "test" /\ Len(svg) >= 2
    /\ LET c == svg[Len(svg)]
       IN  c[1] - c[3] = 0 /\ c[2] - c[3] = 0
====
